---- MODULE Spec2Model ----
(***************************************************************************)
(* Model of the HTTP router of src/src/nodeHttpRouter.ts: the route table, *)
(* the dispatcher matchRoute, the interceptor (plugin) chain built by      *)
(* addRoute, the two request pipelines handleRequest and the listener of   *)
(* createServer, and the test harness runTests.                            *)
(*                                                                         *)
(* A JavaScript string is modelled as the sequence of its characters, each *)
(* character a one-character TLA+ string, so that the regular expression   *)
(* matchRoute builds from a path template is computed character by         *)
(* character as the code builds it.                                        *)
(***************************************************************************)
EXTENDS Integers, Sequences, FiniteSets, TLC

VARIABLES
    routes,         \* Router.routes: the route table, in registration order
    globalPlugins,  \* Router.globalPlugins: the global interceptors, in order
    serving,        \* TRUE once the transport accepts requests (server.listen)
    lastMatch,      \* the latest direct matchRoute call: its inputs (the
                    \* route table among them) and its result
    rq,             \* the request being processed by a pipeline, and its response
    testResults     \* the latest runTests call: its inputs and the results
                    \* it returned

vars == <<routes, globalPlugins, serving, lastMatch, rq, testResults>>

(***************************************************************************)
(* Bounds of the model.                                                    *)
(***************************************************************************)
MaxRoutes == 2
MaxGlobal == 2
MaxCases == 2
MaxUpdates == 2

(***************************************************************************)
(* Small helpers on sequences.                                             *)
(***************************************************************************)
Max(S) == CHOOSE x \in S : \A y \in S : y <= x

Range(s) == {s[i] : i \in 1..Len(s)}

(***************************************************************************)
(* Pattern compilation, as matchRoute does it on every call.               *)
(*   regexPath = route.path.replace(/:[^\s\/]+/g, "([^/]+)")               *)
(*   regex     = new RegExp("^" + regexPath + "$")                         *)
(***************************************************************************)

\* [^\s/] : a character that may belong to a parameter name.
IsNameChar(c) == c # "/" /\ c # " "

\* The number of characters of the maximal run of [^\s/] starting at p.
RECURSIVE NameLen(_, _)
NameLen(t, p) ==
    IF p > Len(t) \/ ~IsNameChar(t[p]) THEN 0 ELSE 1 + NameLen(t, p + 1)

\* The template cut into the pieces String.replace sees, left to right: a
\* parameter marker ":name" (a colon followed by one or more [^\s/]), or one
\* character copied to regexPath unchanged.
RECURSIVE Pieces(_, _)
Pieces(t, p) ==
    IF p > Len(t) THEN <<>>
    ELSE IF t[p] = ":" /\ NameLen(t, p + 1) >= 1
         THEN LET n == NameLen(t, p + 1)
              IN  <<[kind |-> "param", name |-> SubSeq(t, p + 1, p + n)]>>
                      \o Pieces(t, p + n + 1)
         ELSE <<[kind |-> "char", c |-> t[p]]>> \o Pieces(t, p + 1)

\* paramNames: the names pushed by the replace callback, in declaration order.
ParamNames(t) ==
    LET ps == Pieces(t, 1)
        RECURSIVE Names(_)
        Names(i) == IF i > Len(ps) THEN <<>>
                    ELSE IF ps[i].kind = "param"
                         THEN <<ps[i].name>> \o Names(i + 1)
                         ELSE Names(i + 1)
    IN  Names(1)

\* The atoms of the regular expression. The characters copied from the template
\* are regular-expression syntax: "." is any character, "+" repeats the atom
\* before it, "(" opens a group; every other character of the model's alphabet
\* stands for itself. A parameter marker became the capturing group ([^/]+).
LitAtom(c) == [cls |-> "lit",  c |-> c,   plus |-> FALSE, cap |-> FALSE]
AnyAtom    == [cls |-> "any",  c |-> ".", plus |-> FALSE, cap |-> FALSE]
SegAtom    == [cls |-> "seg",  c |-> "/", plus |-> TRUE,  cap |-> TRUE]

\* new RegExp(...): the pattern parsed left to right. valid = FALSE is the
\* SyntaxError the constructor throws: a "+" with nothing to repeat (at the
\* start, or after another quantifier) or a "(" that is never closed.
RECURSIVE ParseRegex(_, _, _)
ParseRegex(ps, i, acc) ==
    IF i > Len(ps) THEN [valid |-> TRUE, atoms |-> acc]
    ELSE IF ps[i].kind = "param" THEN ParseRegex(ps, i + 1, Append(acc, SegAtom))
    ELSE IF ps[i].c = "." THEN ParseRegex(ps, i + 1, Append(acc, AnyAtom))
    ELSE IF ps[i].c = "(" THEN [valid |-> FALSE, atoms |-> <<>>]
    ELSE IF ps[i].c = "+"
         THEN IF acc = <<>> \/ (acc[Len(acc)].plus /\ ~acc[Len(acc)].cap)
              THEN [valid |-> FALSE, atoms |-> <<>>]
              ELSE ParseRegex(ps, i + 1,
                       [acc EXCEPT ![Len(acc)].plus = TRUE])
    ELSE ParseRegex(ps, i + 1, Append(acc, LitAtom(ps[i].c)))

CompileRegex(t) == ParseRegex(Pieces(t, 1), 1, <<>>)

\* One character against one atom.
AtomAccepts(a, ch) ==
    CASE a.cls = "lit" -> ch = a.c
      [] a.cls = "any" -> TRUE
      [] a.cls = "seg" -> ch # "/"

\* The characters s[p .. p+n-1] all satisfy atom a.
RunAccepts(a, s, p, n) == \A k \in p..(p + n - 1) : AtomAccepts(a, s[k])

NoMatch == <<"null">>

\* url.match(regex) for the anchored pattern: the atoms k.. against s from
\* position p up to the end of s. A backtracking matcher: a repeated atom takes
\* the longest run that lets the rest match. The result is NoMatch, or
\* <<"match", captures>> with the captured substrings in group order.
RECURSIVE MatchFrom(_, _, _, _)
MatchFrom(atoms, s, k, p) ==
    IF k > Len(atoms)
    THEN IF p = Len(s) + 1 THEN <<"match", <<>>>> ELSE NoMatch
    ELSE LET a  == atoms[k]
             ns == IF a.plus THEN 1..(Len(s) - p + 1)
                   ELSE IF p <= Len(s) THEN {1} ELSE {}
             ok == {n \in ns : /\ RunAccepts(a, s, p, n)
                               /\ MatchFrom(atoms, s, k + 1, p + n) # NoMatch}
         IN  IF ok = {} THEN NoMatch
             ELSE LET n    == Max(ok)
                      rest == MatchFrom(atoms, s, k + 1, p + n)[2]
                  IN  <<"match",
                        IF a.cap THEN <<SubSeq(s, p, p + n - 1)>> \o rest
                        ELSE rest>>

RegexMatch(atoms, s) == MatchFrom(atoms, s, 1, 1)

\* params: paramNames.forEach((name, index) => params[name] = match[index+1]).
\* A name declared twice keeps the capture of its last declaration.
BuildParams(names, caps) ==
    [nm \in Range(names) |->
        caps[Max({i \in 1..Len(names) : names[i] = nm})]]

(***************************************************************************)
(* The route table and the dispatcher.                                     *)
(***************************************************************************)

\* A method argument of addRoute is a string, or per the README an array of
\* strings; a request method is a string. === between a string and an array
\* is false, which the tags keep.
MStr(m) == <<"str", m>>
MArr(ms) == <<"arr">> \o ms

\* matchRoute(method, url): the scan of this.routes from entry i on. The
\* regular expression of an entry is built before it is tested, so an entry
\* with an invalid pattern throws when the scan reaches it.
RECURSIVE ScanRoutes(_, _, _, _)
ScanRoutes(rs, method, url, i) ==
    IF i > Len(rs) THEN [kind |-> "null"]
    ELSE LET re == CompileRegex(rs[i].path)
         IN  IF ~re.valid THEN [kind |-> "throw"]
             ELSE LET m == RegexMatch(re.atoms, url)
                  IN  IF m # NoMatch /\ rs[i].method = method
                      THEN [kind    |-> "match",
                            index   |-> i,
                            handler |-> rs[i].handler,
                            params  |-> BuildParams(ParamNames(rs[i].path), m[2])]
                      ELSE ScanRoutes(rs, method, url, i + 1)

MatchRoute(rs, method, url) == ScanRoutes(rs, method, url, 1)


(***************************************************************************)
(* The universes the operations draw their inputs from.                    *)
(***************************************************************************)

\* Path templates given to addRoute and paths of requests, as characters.
TplA         == <<"/", "a">>
TplAParam    == <<"/", "a", "/", ":", "x">>
TplTwo       == <<"/", ":", "x", "/", ":", "y">>
TplDot       == <<"/", "a", ".", "b">>
TplPlusParam == <<"/", "a", "+", "/", ":", "x">>
TplOpen      == <<"/", "(">>

Templates == {TplA, TplAParam, TplTwo, TplDot, TplPlusParam, TplOpen}

UrlA   == <<"/", "a">>
UrlB   == <<"/", "b">>
UrlAB  == <<"/", "a", "/", "b">>
UrlA_  == <<"/", "a", "/">>
UrlAXB == <<"/", "a", "x", "b">>
UrlDot == <<"/", "a", ".", "b">>
UrlAPB == <<"/", "a", "+", "/", "b">>

Urls == {UrlA, UrlAB, UrlA_, UrlAXB, UrlDot, UrlAPB}

\* Method arguments of addRoute: one method, or an array of methods.
RouteMethods == {MStr("GET"), MStr("POST"), MArr(<<"POST", "PUT">>)}

\* Methods of requests and of direct matchRoute calls.
Methods == {"GET", "POST"}

\* Interceptor identities (Plugin.name): the k-th addGlobalPlugin call
\* registers GlobalNames[k]; route-local interceptors are "l1" and "l2".
GlobalNames == <<"g1", "g2", "g3", "g4">>

\* The customPlugins arrays given to addRoute.
PluginLists == {<<>>, <<"l1">>, <<"l1", "l2">>}

\* The routes and requests of the pipeline specification: routes that differ
\* in method, interceptors and redirect, on one path.
PipeTemplates == {TplA}
PipeUrls      == {UrlA, UrlB}
PipeMethods   == {MStr("GET"), MStr("POST")}

\* The routes and requests of the resolving specification: routes that differ
\* in method and template, without interceptors.
ResolveTemplates == {TplA, TplDot, TplOpen}
ResolveUrls      == {UrlA, UrlB, UrlAXB}

\* The requests of the query specification: /a with a query string.
UrlQOne    == <<"/", "a", "?", "x", "=", "1">>
UrlQRepeat == <<"/", "a", "?", "x", "=", "1", "&", "x", "=", "2">>
UrlQTwo    == <<"/", "a", "?", "x", "=", "1", "&", "y", "=", "2">>
QueryUrls  == {UrlA, UrlQOne, UrlQRepeat, UrlQTwo}

\* The handler functions given to addRoute: the k-th call passes Handlers[k].
Handlers == <<"h1", "h2", "h3", "h4">>

\* The handler a plugin returns to override the route's handler (README,
\* Plugin): distinct from every registered handler.
OverrideHandler == "hOverride"

\* req.method of a request; Undefined is a request object without a method.
Undefined == "undefined"
ReqMethods == Methods \cup {Undefined}

\* The requests in flight. The sequential pipeline processes one at a time.
ReqIds == {"r1"}

\* Two requests in flight on one router: "hr" is handed to handleRequest by
\* the caller's own server, "cs" is received by the server of createServer.
TwinIds == {"hr", "cs"}

\* Two requests in flight at once, each through either entry point: the
\* callbacks of one request run between the awaits of the other.
ConcIds == {"c1", "c2"}

(***************************************************************************)
(* The URL of a request: new URL(req.url, ...) gives its pathname and its  *)
(* searchParams, and Object.fromEntries(searchParams.entries()) the query  *)
(* handed to the plugins and the handler.                                  *)
(***************************************************************************)

\* The position of the first character c of s, 0 when s has none.
RECURSIVE IndexOf(_, _, _)
IndexOf(s, c, p) ==
    IF p > Len(s) THEN 0 ELSE IF s[p] = c THEN p ELSE IndexOf(s, c, p + 1)

\* url.pathname: the characters before the first "?".
Pathname(u) ==
    LET i == IndexOf(u, "?", 1)
    IN  IF i = 0 THEN u ELSE SubSeq(u, 1, i - 1)

\* url.search without its "?": the characters after the first "?".
Search(u) ==
    LET i == IndexOf(u, "?", 1)
    IN  IF i = 0 THEN <<>> ELSE SubSeq(u, i + 1, Len(u))

\* The pieces of s between the characters c.
RECURSIVE SplitOn(_, _)
SplitOn(s, c) ==
    LET i == IndexOf(s, c, 1)
    IN  IF i = 0 THEN <<s>>
        ELSE <<SubSeq(s, 1, i - 1)>> \o SplitOn(SubSeq(s, i + 1, Len(s)), c)

\* url.searchParams.entries(): one [name, value] pair per non-empty piece
\* "name=value" of the query string, in the order of the string.
RECURSIVE EntriesOf(_, _)
EntriesOf(pieces, i) ==
    IF i > Len(pieces) THEN <<>>
    ELSE IF pieces[i] = <<>> THEN EntriesOf(pieces, i + 1)
    ELSE LET e == IndexOf(pieces[i], "=", 1)
             entry == IF e = 0
                      THEN [name |-> pieces[i], value |-> <<>>]
                      ELSE [name  |-> SubSeq(pieces[i], 1, e - 1),
                            value |-> SubSeq(pieces[i], e + 1, Len(pieces[i]))]
         IN  <<entry>> \o EntriesOf(pieces, i + 1)

SearchParams(search) == EntriesOf(SplitOn(search, "&"), 1)

\* A value of the query object: a string, or an array of strings.
QStr(v) == <<"string", v>>
QArr(vs) == <<"array">> \o vs

\* Object.fromEntries(entries): each pair assigns its name, so a name that
\* occurs again keeps the value of its last pair; every value is a string.
FromEntries(entries) ==
    [nm \in {entries[i].name : i \in 1..Len(entries)} |->
        QStr(entries[Max({i \in 1..Len(entries) : entries[i].name = nm})].value)]

(***************************************************************************)
(* The response object (http.ServerResponse) as the pipeline uses it.      *)
(***************************************************************************)
NewResponse ==
    [statusCode  |-> 200,      \* the statusCode property
     headersSent |-> FALSE,    \* the header block has been produced
     finished    |-> FALSE,    \* end() has completed the response
     sentStatus  |-> 0,        \* the status that went out, 0 while none did
     body        |-> "",       \* the body that went out
     location    |-> FALSE,    \* a Location header is set
     ends        |-> 0]        \* the number of end() calls

\* res.end(body): completes the response the first time; a later call changes
\* nothing that went out.
ResEnd(res, body) ==
    IF res.finished THEN [res EXCEPT !.ends = @ + 1]
    ELSE [res EXCEPT !.headersSent = TRUE, !.finished = TRUE,
                     !.sentStatus = res.statusCode, !.body = body,
                     !.ends = @ + 1]

\* enhanceResponse(res).redirect(url): statusCode = 302; setHeader("Location");
\* end(). setHeader throws ERR_HTTP_HEADERS_SENT once the headers are sent;
\* threw = TRUE is that exception, raised after the assignment of statusCode.
Redirect(res) ==
    IF res.headersSent
    THEN [threw |-> TRUE,  res |-> [res EXCEPT !.statusCode = 302]]
    ELSE [threw |-> FALSE,
          res   |-> ResEnd([res EXCEPT !.statusCode = 302, !.location = TRUE], "")]


(***************************************************************************)
(* Initial state: a Router just constructed, no request received.          *)
(***************************************************************************)
NoResult == [kind |-> "none"]

\* The live-reload plugin before its handler is called for a request.
NoLiveReload ==
    [pc        |-> "off",   \* where the handler of the plugin stands
     watcher   |-> "none",  \* the fs watcher: "none", "open" or "closed"
     listeners |-> {},      \* the events of req the handler listens to
     emitted   |-> {},      \* the events req has emitted so far
     during    |-> {},      \* those emitted while the handler set up
     after     |-> {},      \* those emitted once the watcher existed
     updates   |-> 0]       \* the "data:" messages written

IdleRequest ==
    [pc     |-> "idle",     \* where the pipeline of this request stands
     entry  |-> "none",     \* "handleRequest" or "createServer"
     method |-> Undefined,  \* req.method
     url    |-> <<>>,       \* the pathname of req.url
     search |-> <<>>,       \* the query string of req.url
     query  |-> FromEntries(<<>>),  \* the query object handed on
     match  |-> NoResult,   \* what matchRoute returned for it
     idx    |-> 0,          \* the index of the interceptor in progress
     running |-> {},        \* the interceptor or handler calls of
                            \* wrappedHandler that have not returned yet
     trace  |-> <<>>,       \* what has run for this request, in order
     lr     |-> NoLiveReload,  \* the live-reload plugin for this request
     res    |-> NewResponse]

Init ==
    /\ routes = <<>>
    /\ globalPlugins = <<>>
    /\ serving = FALSE
    /\ lastMatch = [called |-> FALSE, method |-> MStr(""), url |-> <<>>,
                    table |-> <<>>, result |-> NoResult]
    /\ rq = [r \in ReqIds |-> IdleRequest]
    /\ testResults = [ran |-> FALSE, table |-> <<>>, testCases |-> <<>>,
                      results |-> <<>>]

(***************************************************************************)
(* Registration.                                                           *)
(***************************************************************************)

\* addGlobalPlugin(plugin): this.globalPlugins.push(plugin).
AddGlobalPlugin(p) ==
    /\ Len(globalPlugins) < MaxGlobal
    /\ globalPlugins' = Append(globalPlugins, p)
    /\ UNCHANGED <<routes, serving, lastMatch, rq, testResults>>

\* The closure wrappedHandler that addRoute stores as the route's handler: it
\* captures the handler, the customPlugins and the redirectTo of the call.
WrappedHandler(handler, customPlugins, redirectTo) ==
    [fn            |-> "wrappedHandler",
     handler       |-> handler,
     customPlugins |-> customPlugins,
     redirectTo    |-> redirectTo]

\* addRoute(method, path, handler, customPlugins, redirectTo):
\* this.routes.push({ method, path, handler: wrappedHandler }). Nothing of the
\* path is compiled or checked here.
\* addRoute with this.routes.unshift(...) in place of push: the new route goes
\* in front of the table.
AddRoute_Unshift(method, path, customPlugins, redirectTo) ==
    /\ Len(routes) < MaxRoutes
    /\ routes' = <<[method  |-> method,
                    path    |-> path,
                    handler |-> WrappedHandler(Handlers[Len(routes) + 1],
                                               customPlugins, redirectTo)]>>
                 \o routes
    /\ UNCHANGED <<globalPlugins, serving, lastMatch, rq, testResults>>

AddRoute(method, path, customPlugins, redirectTo) ==
    /\ Len(routes) < MaxRoutes
    /\ routes' = Append(routes,
           [method  |-> method,
            path    |-> path,
            handler |-> WrappedHandler(Handlers[Len(routes) + 1],
                                       customPlugins, redirectTo)])
    /\ UNCHANGED <<globalPlugins, serving, lastMatch, rq, testResults>>

\* server.listen(): the transport starts to accept requests.
Listen ==
    /\ ~serving
    /\ serving' = TRUE
    /\ UNCHANGED <<routes, globalPlugins, lastMatch, rq, testResults>>

\* CallMatchRoute with a dispatcher that reorders the table it scans: the
\* route it returns is moved to the front of this.routes.
CallMatchRoute_MoveToFront(m, u) ==
    LET res == MatchRoute(routes, MStr(m), u)
    IN  /\ lastMatch' = [called |-> TRUE, method |-> MStr(m), url |-> u,
                         table |-> routes, result |-> res]
        /\ routes' = IF res.kind = "match"
                     THEN <<routes[res.index]>>
                              \o SubSeq(routes, 1, res.index - 1)
                              \o SubSeq(routes, res.index + 1, Len(routes))
                     ELSE routes
        /\ UNCHANGED <<globalPlugins, serving, rq, testResults>>

\* A direct call router.matchRoute(method, url), as runTests and callers make.
CallMatchRoute(m, u) ==
    /\ lastMatch' = [called |-> TRUE, method |-> MStr(m), url |-> u,
                     table |-> routes,
                     result |-> MatchRoute(routes, MStr(m), u)]
    /\ UNCHANGED <<routes, globalPlugins, serving, rq, testResults>>

(***************************************************************************)
(* The test harness: runTests(testCases).                                  *)
(***************************************************************************)

\* A TestCase: expectedParams is optional (hasParams tells it was given).
TestCase(name, path, expectedMatch, hasParams, expectedParams) ==
    [name           |-> name,
     method         |-> "GET",
     path           |-> path,
     expectedMatch  |-> expectedMatch,
     hasParams      |-> hasParams,
     expectedParams |-> expectedParams]

NoParams == [nm \in {} |-> <<>>]
ParamX(v) == [nm \in {<<"x">>} |-> v]

\* The test cases given to runTests.
TestCases ==
    {TestCase("t1", UrlAB, TRUE,  TRUE,  ParamX(<<"a">>)),
     TestCase("t2", UrlAB, TRUE,  TRUE,  ParamX(<<"b">>)),
     TestCase("t3", UrlAB, FALSE, FALSE, NoParams),
     TestCase("t4", UrlA,  TRUE,  FALSE, NoParams)}

\* The testCases arrays: every sequence of at most MaxCases test cases.
TestSuites == UNION {[1..n -> TestCases] : n \in 0..MaxCases}

\* The routes of the harness specification.
HarnessTemplates == {TplTwo, TplOpen}

\* The messages of a TestResult; a passed result has no message.
MsgMismatch == "Parameter mismatch"
MsgNoMatch  == "Route match failed"
MsgError    == "Test error"

TestResult(name, passed, message) ==
    [name |-> name, passed |-> passed, message |-> message]

\* CaseResult with a comparison of the whole parameter objects: the produced
\* params must equal expectedParams.
CaseResult_WholeParams(rs, tc) ==
    LET m == MatchRoute(rs, MStr(tc.method), tc.path)
    IN  IF m.kind = "throw" THEN TestResult(tc.name, FALSE, MsgError)
        ELSE LET found  == m.kind = "match"
                 passed == IF tc.expectedMatch THEN found ELSE ~found
             IN  IF passed /\ tc.hasParams /\ found
                    /\ m.params # tc.expectedParams
                 THEN TestResult(tc.name, FALSE, MsgMismatch)
                 ELSE IF ~passed THEN TestResult(tc.name, FALSE, MsgNoMatch)
                 ELSE TestResult(tc.name, TRUE, Undefined)

\* The body of testCases.forEach for one test case: the try block, and its
\* catch when matchRoute throws.
CaseResult(rs, tc) ==
    LET m == MatchRoute(rs, MStr(tc.method), tc.path)
    IN  IF m.kind = "throw" THEN TestResult(tc.name, FALSE, MsgError)
        ELSE LET found  == m.kind = "match"
                 passed == IF tc.expectedMatch THEN found ELSE ~found
                 allParamsMatch ==
                     \A key \in DOMAIN tc.expectedParams :
                         /\ key \in DOMAIN m.params
                         /\ m.params[key] = tc.expectedParams[key]
             IN  IF passed /\ tc.hasParams /\ found /\ ~allParamsMatch
                 THEN TestResult(tc.name, FALSE, MsgMismatch)
                 ELSE IF ~passed THEN TestResult(tc.name, FALSE, MsgNoMatch)
                 ELSE TestResult(tc.name, TRUE, Undefined)

\* ResultsFrom without the try/catch around the case: the exception of
\* matchRoute ends the forEach, and the cases from that one on get no result.
RECURSIVE ResultsFrom_NoCatch(_, _, _)
ResultsFrom_NoCatch(rs, testCases, i) ==
    IF i > Len(testCases) THEN <<>>
    ELSE IF MatchRoute(rs, MStr(testCases[i].method), testCases[i].path).kind
                = "throw"
    THEN <<>>
    ELSE <<CaseResult(rs, testCases[i])>>
             \o ResultsFrom_NoCatch(rs, testCases, i + 1)

\* testCases.forEach(...): results.push(result) for the cases i.. in order.
RECURSIVE ResultsFrom(_, _, _)
ResultsFrom(rs, testCases, i) ==
    IF i > Len(testCases) THEN <<>>
    ELSE <<CaseResult(rs, testCases[i])>> \o ResultsFrom(rs, testCases, i + 1)

\* runTests(testCases): returns the results of all the cases.
RunTests(testCases) ==
    /\ testResults' = [ran       |-> TRUE,
                       table     |-> routes,
                       testCases |-> testCases,
                       results   |-> ResultsFrom(routes, testCases, 1)]
    /\ UNCHANGED <<routes, globalPlugins, serving, lastMatch, rq>>


(***************************************************************************)
(* The request pipeline.                                                   *)
(***************************************************************************)

\* A request has reached the end of its pipeline: "done" when the pipeline
\* returned, "escaped" when a failure left it uncaught.
Terminal == {"done", "escaped"}

Event(kind, who, out) == [kind |-> kind, who |-> who, out |-> out]

\* The catch of handleRequest (.catch of the promise chain): statusCode = 500;
\* end("Internal Server Error"); console.error.
CatchHandleRequest(q) ==
    [q EXCEPT !.pc = "done",
              !.trace = Append(@, Event("catch", "handleRequest", "500")),
              !.res = ResEnd([q.res EXCEPT !.statusCode = 500],
                             "Internal Server Error")]

\* The catch of the createServer listener: writeHead(500, ...); end(...).
\* writeHead throws ERR_HTTP_HEADERS_SENT once the headers are sent, and
\* nothing catches that: the listener's promise is rejected.
CatchCreateServer(q) ==
    IF q.res.headersSent
    THEN [q EXCEPT !.pc = "escaped",
                   !.trace = Append(@, Event("catch", "createServer", "throw"))]
    ELSE [q EXCEPT !.pc = "done",
                   !.trace = Append(@, Event("catch", "createServer", "500")),
                   !.res = ResEnd([q.res EXCEPT !.statusCode = 500],
                                  "Internal Server Error")]

\* A failure raised inside match.handler(...) reaches the catch of the entry
\* point that called it.
HandlerFailure(q) ==
    IF q.entry = "handleRequest" THEN CatchHandleRequest(q)
    ELSE CatchCreateServer(q)

\* NextStage with the two loops of wrappedHandler swapped: the customPlugins
\* loop first, then the global loop.
NextStage_LocalFirst(q, phase, idx) ==
    LET custom == q.match.handler.customPlugins
    IN  IF phase = "global" /\ idx = 0 /\ Len(custom) >= 1
        THEN [q EXCEPT !.pc = "local", !.idx = 1]
        ELSE IF phase = "local" /\ idx + 1 <= Len(custom)
        THEN [q EXCEPT !.pc = "local", !.idx = idx + 1]
        ELSE IF phase = "local" /\ Len(globalPlugins) >= 1
        THEN [q EXCEPT !.pc = "global", !.idx = 1]
        ELSE IF phase = "global" /\ idx + 1 <= Len(globalPlugins)
        THEN [q EXCEPT !.pc = "global", !.idx = idx + 1]
        ELSE [q EXCEPT !.pc = "handler", !.idx = 0]

\* NextStage with the loop index kept in a variable shared by every call of
\* wrappedHandler instead of one per call: a request goes on from the
\* furthest index any request in flight has reached.
NextStage_SharedIndex(q, phase, idx) ==
    LET custom == q.match.handler.customPlugins
        shared == Max({idx} \cup {rq[x].idx : x \in DOMAIN rq})
    IN  IF phase = "global" /\ idx + 1 <= Len(globalPlugins)
        THEN [q EXCEPT !.pc = "global", !.idx = idx + 1,
                       !.running = @ \cup {<<"global", idx + 1>>}]
        ELSE IF phase = "global" /\ Len(custom) >= 1
        THEN [q EXCEPT !.pc = "local", !.idx = 1,
                       !.running = @ \cup {<<"local", 1>>}]
        ELSE IF phase = "local" /\ shared + 1 <= Len(custom)
        THEN [q EXCEPT !.pc = "local", !.idx = shared + 1,
                       !.running = @ \cup {<<"local", shared + 1>>}]
        ELSE [q EXCEPT !.pc = "handler", !.idx = 0,
                       !.running = @ \cup {<<"handler", 0>>}]

\* NextStage with the global loop over a copy of this.globalPlugins taken by
\* addRoute when the route is registered; for a route registered before any
\* global plugin the copy is empty.
NextStage_GlobalsAtAddRoute(q, phase, idx) ==
    LET custom == q.match.handler.customPlugins
    IN  IF phase = "global" /\ Len(custom) >= 1
        THEN [q EXCEPT !.pc = "local", !.idx = 1,
                       !.running = @ \cup {<<"local", 1>>}]
        ELSE IF phase = "local" /\ idx + 1 <= Len(custom)
        THEN [q EXCEPT !.pc = "local", !.idx = idx + 1,
                       !.running = @ \cup {<<"local", idx + 1>>}]
        ELSE [q EXCEPT !.pc = "handler", !.idx = 0,
                       !.running = @ \cup {<<"handler", 0>>}]

\* NextStage without the await on plugin.handler(...): the call of the next
\* interceptor is not waited for, so the loops run on and the handler is
\* called while that interceptor is still in progress.
NextStage_NoAwait(q, phase, idx) ==
    LET custom == q.match.handler.customPlugins
    IN  IF phase = "global" /\ idx + 1 <= Len(globalPlugins)
        THEN [q EXCEPT !.pc = "global", !.idx = idx + 1,
                       !.running = @ \cup {<<"global", idx + 1>>,
                                           <<"handler", 0>>}]
        ELSE IF phase = "global" /\ Len(custom) >= 1
        THEN [q EXCEPT !.pc = "local", !.idx = 1,
                       !.running = @ \cup {<<"local", 1>>, <<"handler", 0>>}]
        ELSE IF phase = "local" /\ idx + 1 <= Len(custom)
        THEN [q EXCEPT !.pc = "local", !.idx = idx + 1,
                       !.running = @ \cup {<<"local", idx + 1>>,
                                           <<"handler", 0>>}]
        ELSE [q EXCEPT !.pc = "handler", !.idx = 0,
                       !.running = @ \cup {<<"handler", 0>>}]

\* wrappedHandler after interceptor idx of phase pc has let the chain go on:
\* the next interceptor of the global loop, then of the customPlugins loop,
\* then the handler. this.globalPlugins is read as the loop advances.
NextStage(q, phase, idx) ==
    LET custom == q.match.handler.customPlugins
    IN  IF phase = "global" /\ idx + 1 <= Len(globalPlugins)
        THEN [q EXCEPT !.pc = "global", !.idx = idx + 1,
                       !.running = @ \cup {<<"global", idx + 1>>}]
        ELSE IF phase = "global" /\ Len(custom) >= 1
        THEN [q EXCEPT !.pc = "local", !.idx = 1,
                       !.running = @ \cup {<<"local", 1>>}]
        ELSE IF phase = "local" /\ idx + 1 <= Len(custom)
        THEN [q EXCEPT !.pc = "local", !.idx = idx + 1,
                       !.running = @ \cup {<<"local", idx + 1>>}]
        ELSE [q EXCEPT !.pc = "handler", !.idx = 0,
                       !.running = @ \cup {<<"handler", 0>>}]

\* AfterPlugin without the early return of the global loop: a global
\* interceptor that returns false no longer stops the chain.
AfterPlugin_NoGlobalHalt(q, phase, idx, out) ==
    CASE out = "throw" -> HandlerFailure(q)
      [] out = "false" /\ phase = "local" -> [q EXCEPT !.pc = "done"]
      [] OTHER         -> NextStage(q, phase, idx)

\* AfterPlugin without the early return of the customPlugins loop: a local
\* interceptor that returns false no longer stops the chain.
AfterPlugin_NoLocalHalt(q, phase, idx, out) ==
    CASE out = "throw" -> HandlerFailure(q)
      [] out = "false" /\ phase = "global" -> [q EXCEPT !.pc = "done"]
      [] OTHER         -> NextStage(q, phase, idx)

\* wrappedHandler once "await plugin.handler(...)" has given out for the
\* interceptor idx of phase: "if (!shouldContinue) return" ends the pipeline
\* on false; every other value (true, or a replacement handler, which is
\* truthy and otherwise unused) lets the chain go on; a rejection is a
\* failure of match.handler.
AfterPlugin(q, phase, idx, out) ==
    CASE out = "throw" -> HandlerFailure(q)
      [] out = "false" -> [q EXCEPT !.pc = "done"]
      [] OTHER         -> NextStage(q, phase, idx)

\* The response for a request no route matched.
NotFound(q) ==
    [q EXCEPT !.pc = "done",
              !.res = ResEnd([q.res EXCEPT !.statusCode = 404], "Not Found")]

\* What both entry points do with the result of matchRoute: a match goes on
\* to parseBody, null is answered 404, and an exception thrown by matchRoute
\* is caught by neither.
Resolve(q) ==
    CASE q.match.kind = "match" -> [q EXCEPT !.pc = "parseBody"]
      [] q.match.kind = "null"  -> NotFound(q)
      [] q.match.kind = "throw" -> [q EXCEPT !.pc = "escaped"]

\* handleRequest(req, res): url = new URL(req.url, ...);
\* matchRoute(req.method || "", url.pathname); query from url.searchParams.
HandleRequest(r, m, u) ==
    /\ serving
    /\ rq[r].pc = "idle"
    /\ LET method == IF m = Undefined THEN MStr("") ELSE MStr(m)
           q == [IdleRequest EXCEPT !.entry = "handleRequest", !.method = m,
                                    !.url = Pathname(u),
                                    !.search = Search(u),
                                    !.query = FromEntries(SearchParams(Search(u))),
                                    !.match = MatchRoute(routes, method,
                                                         Pathname(u))]
       IN  rq' = [rq EXCEPT ![r] = Resolve(q)]
    /\ UNCHANGED <<routes, globalPlugins, serving, lastMatch, testResults>>

\* The listener of createServer: parsedUrl = new URL(req.url, ...); query from
\* parsedUrl.searchParams; matchRoute(req.method || "GET", pathname).
CreateServerListener(r, m, u) ==
    /\ serving
    /\ rq[r].pc = "idle"
    /\ LET method == IF m = Undefined THEN MStr("GET") ELSE MStr(m)
           q == [IdleRequest EXCEPT !.entry = "createServer", !.method = m,
                                    !.url = Pathname(u),
                                    !.search = Search(u),
                                    !.query = FromEntries(SearchParams(Search(u))),
                                    !.match = MatchRoute(routes, method,
                                                         Pathname(u))]
       IN  rq' = [rq EXCEPT ![r] = Resolve(q)]
    /\ UNCHANGED <<routes, globalPlugins, serving, lastMatch, testResults>>

\* parseBody(req) settles. Resolved, match.handler (wrappedHandler) is called
\* and starts its chain. Rejected (JSON.parse threw), handleRequest's .catch
\* answers 500, while the listener of createServer awaits parseBody outside
\* its try block, so the rejection leaves the listener uncaught.
ParseBody(r, outcome) ==
    /\ rq[r].pc = "parseBody"
    /\ LET q == [rq[r] EXCEPT !.trace = Append(@, Event("parseBody", "body", outcome))]
       IN  rq' = [rq EXCEPT ![r] =
               IF outcome = "resolve" THEN NextStage(q, "global", 0)
               ELSE IF q.entry = "handleRequest" THEN CatchHandleRequest(q)
               ELSE [q EXCEPT !.pc = "escaped"]]
    /\ UNCHANGED <<routes, globalPlugins, serving, lastMatch, testResults>>

\* The request stream is destroyed before its "end" event: the connection
\* closes or errors while the body is read. parseBody listens to "data" and
\* "end" only, so nothing settles its promise, and the await of
\* handleRequest or of the listener of createServer never resumes.
BodyStreamFails(r) ==
    /\ rq[r].pc = "parseBody"
    /\ rq' = [rq EXCEPT ![r].pc = "pending"]
    /\ UNCHANGED <<routes, globalPlugins, serving, lastMatch, testResults>>

\* The interceptor in progress returns: await plugin.handler(...) and
\* "if (!shouldContinue) return". out is what the plugin's promise gives:
\* true, false, a replacement RouteHandler ("handler"), or a rejection
\* ("throw"); wrote tells that the plugin answered the request itself before
\* it returned false (README, addGlobalPlugin).
PluginReturns(r, out, wrote) ==
    /\ rq[r].pc \in {"global", "local"}
    /\ wrote => out = "false"
    /\ LET q0   == rq[r]
           name == IF q0.pc = "global" THEN globalPlugins[q0.idx]
                   ELSE q0.match.handler.customPlugins[q0.idx]
           q    == [q0 EXCEPT
                      !.trace = Append(@, Event(q0.pc, name, out)),
                      !.running = @ \ {<<q0.pc, q0.idx>>},
                      !.res = IF wrote
                              THEN ResEnd([q0.res EXCEPT !.statusCode = 401],
                                          "plugin")
                              ELSE @]
       IN  rq' = [rq EXCEPT ![r] = AfterPlugin(q, q0.pc, q0.idx, out)]
    /\ UNCHANGED <<routes, globalPlugins, serving, lastMatch, testResults>>

\* The route's handler returns: await handler(...), then
\* "if (redirectTo) enhancedRes.redirect(redirectTo)". out is what the
\* handler did: "end" answered the request, "none" returned without writing,
\* "throw" raised before writing, "endThrow" answered and then raised.
HandlerReturns(r, out) ==
    /\ rq[r].pc = "handler"
    /\ LET q0  == rq[r]
           wh  == q0.match.handler
           q   == [q0 EXCEPT
                     !.trace = Append(@, Event("handler", wh.handler, out)),
                     !.running = @ \ {<<"handler", 0>>},
                     !.res = IF out \in {"end", "endThrow"}
                             THEN ResEnd(q0.res, "handler") ELSE @]
           rd  == Redirect(q.res)
           qr  == [q EXCEPT !.trace = Append(@, Event("redirect", "redirectTo",
                                IF rd.threw THEN "throw" ELSE "302")),
                            !.res = rd.res]
       IN  rq' = [rq EXCEPT ![r] =
               IF out \in {"throw", "endThrow"} THEN HandlerFailure(q)
               ELSE IF ~wh.redirectTo THEN [q EXCEPT !.pc = "done"]
               ELSE IF rd.threw THEN HandlerFailure(qr)
               ELSE [qr EXCEPT !.pc = "done"]]
    /\ UNCHANGED <<routes, globalPlugins, serving, lastMatch, testResults>>

\* The request is over (its response went out, or its pipeline failed): the
\* request context is dropped and the next request can be received.
RequestOver(r) ==
    /\ rq[r].pc \in Terminal
    /\ rq' = [rq EXCEPT ![r] = IdleRequest]
    /\ UNCHANGED <<routes, globalPlugins, serving, lastMatch, testResults>>

(***************************************************************************)
(* The live-reload plugin of dist/plugins.js.                              *)
(***************************************************************************)
\* options.templatePage, the url the plugin streams for.
LivePage == UrlA

StreamEvents == {"close", "end", "error"}

\* The handler of the plugin is called. For a GET of options.templatePage it
\* sets the three headers and flushes them, which throws when headers were
\* sent already (sent), and awaits the first sendUpdate(); for any other
\* request it returns true.
LiveReloadHandler(r, m, u, sent) ==
    /\ rq[r].lr.pc = "off"
    /\ rq' = [rq EXCEPT ![r].lr.pc =
                 IF m = "GET" /\ u = LivePage
                 THEN (IF sent THEN "failed" ELSE "rendering")
                 ELSE "returned"]
    /\ UNCHANGED <<routes, globalPlugins, serving, lastMatch, testResults>>

\* The first sendUpdate() settles: renderTemplate gave the content or failed,
\* and either way one "data:" message is written (the catch writes the
\* error). Then watch(options.templatePath, ...) either throws (watched) or
\* gives the watcher, the handler registers its listeners for "close", "end"
\* and "error" on req and returns false.
SendUpdateSettles(r, watched) ==
    /\ rq[r].lr.pc = "rendering"
    /\ rq' = [rq EXCEPT ![r].lr =
                 IF watched
                 THEN [@ EXCEPT !.pc = "streaming", !.watcher = "open",
                                !.listeners = StreamEvents,
                                !.updates = @ + 1]
                 ELSE [@ EXCEPT !.pc = "failed", !.updates = @ + 1]]
    /\ UNCHANGED <<routes, globalPlugins, serving, lastMatch, testResults>>

\* req emits "end", "error" or "close", each at most once and nothing after
\* "close"; which of them happen and when is up to the client, the
\* connection and the Node version ("close" at the end of the request or of
\* the connection). A listener registered for the event closes the watcher;
\* an event emitted before the listeners exist is lost.
RequestEmits(r, ev) ==
    /\ ev \notin rq[r].lr.emitted
    /\ "close" \notin rq[r].lr.emitted
    /\ ev = "end" => "error" \notin rq[r].lr.emitted
    /\ rq' = [rq EXCEPT ![r].lr =
                 [@ EXCEPT !.emitted = @ \cup {ev},
                           !.during = IF rq[r].lr.pc = "rendering"
                                      THEN @ \cup {ev} ELSE @,
                           !.after = IF rq[r].lr.watcher # "none"
                                     THEN @ \cup {ev} ELSE @,
                           !.watcher = IF ev \in rq[r].lr.listeners
                                       THEN "closed" ELSE @]]
    /\ UNCHANGED <<routes, globalPlugins, serving, lastMatch, testResults>>

\* The template file changes while the watcher is open: its callback calls
\* sendUpdate(), which writes one more message.
TemplateChanges(r) ==
    /\ rq[r].lr.watcher = "open"
    /\ rq[r].lr.updates < MaxUpdates
    /\ rq' = [rq EXCEPT ![r].lr.updates = @ + 1]
    /\ UNCHANGED <<routes, globalPlugins, serving, lastMatch, testResults>>

(***************************************************************************)
(* Specifications.                                                         *)
(***************************************************************************)

\* The steps of a request after it was received, whatever the routes are.
PipelineSteps ==
    \/ \E r \in ReqIds, o \in {"resolve", "reject"} : ParseBody(r, o)
    \/ \E r \in ReqIds, o \in {"true", "false", "handler", "throw"},
          w \in BOOLEAN : PluginReturns(r, o, w)
    \/ \E r \in ReqIds, o \in {"end", "none", "throw", "endThrow"} :
          HandlerReturns(r, o)
    \/ \E r \in ReqIds : RequestOver(r)

\* The k-th call of addGlobalPlugin registers the plugin GlobalNames[k].
RegisterGlobalPlugin ==
    /\ Len(globalPlugins) < MaxGlobal
    /\ AddGlobalPlugin(GlobalNames[Len(globalPlugins) + 1])

\* Registration happens during setup, before the transport accepts requests:
\* the documented usage registers every plugin and route and then calls
\* server.listen().
Setup == ~serving

\* The router set up and then serving requests through both entry points.
Next ==
    \/ Setup /\ RegisterGlobalPlugin
    \/ Setup /\ \E m \in PipeMethods, t \in PipeTemplates, cp \in PluginLists,
          rd \in BOOLEAN : AddRoute(m, t, cp, rd)
    \/ Listen
    \/ \E r \in ReqIds, m \in ReqMethods, u \in PipeUrls : HandleRequest(r, m, u)
    \/ \E r \in ReqIds, m \in ReqMethods, u \in PipeUrls :
          CreateServerListener(r, m, u)
    \/ PipelineSteps

Spec == Init /\ [][Next]_vars

\* The same pipeline over routes of several templates, to resolve requests
\* against.
NextResolve ==
    \/ Setup /\ RegisterGlobalPlugin
    \/ Setup /\ \E m \in PipeMethods, t \in ResolveTemplates :
          AddRoute(m, t, <<>>, FALSE)
    \/ Listen
    \/ \E r \in ReqIds, m \in ReqMethods, u \in ResolveUrls :
          HandleRequest(r, m, u)
    \/ \E r \in ReqIds, m \in ReqMethods, u \in ResolveUrls :
          CreateServerListener(r, m, u)
    \/ PipelineSteps

SpecResolve == Init /\ [][NextResolve]_vars

\* The pipeline for requests to /a that carry a query string.
NextQuery ==
    \/ Setup /\ RegisterGlobalPlugin
    \/ Setup /\ \E m \in PipeMethods : AddRoute(m, TplA, <<>>, FALSE)
    \/ Listen
    \/ \E r \in ReqIds, m \in ReqMethods, u \in QueryUrls :
          HandleRequest(r, m, u)
    \/ \E r \in ReqIds, m \in ReqMethods, u \in QueryUrls :
          CreateServerListener(r, m, u)
    \/ PipelineSteps

SpecQuery == Init /\ [][NextQuery]_vars

\* One router serving through both entry points at once: a request handed to
\* handleRequest and a request received by the listener of createServer.
InitTwin ==
    /\ routes = <<>>
    /\ globalPlugins = <<>>
    /\ serving = FALSE
    /\ lastMatch = [called |-> FALSE, method |-> MStr(""), url |-> <<>>,
                    table |-> <<>>, result |-> NoResult]
    /\ rq = [r \in TwinIds |-> IdleRequest]
    /\ testResults = [ran |-> FALSE, table |-> <<>>, testCases |-> <<>>,
                      results |-> <<>>]

NextTwin ==
    \/ Setup /\ \E cp \in {<<>>, <<"l1">>}, rd \in BOOLEAN :
          AddRoute(MStr("GET"), TplA, cp, rd)
    \/ Listen
    \/ \E m \in ReqMethods, u \in PipeUrls : HandleRequest("hr", m, u)
    \/ \E m \in ReqMethods, u \in PipeUrls : CreateServerListener("cs", m, u)
    \/ \E r \in TwinIds, o \in {"resolve", "reject"} : ParseBody(r, o)
    \/ \E r \in TwinIds, o \in {"true", "false", "handler", "throw"},
          w \in BOOLEAN : PluginReturns(r, o, w)
    \/ \E r \in TwinIds, o \in {"end", "none", "throw", "endThrow"} :
          HandlerReturns(r, o)
    \/ \E r \in TwinIds : RequestOver(r)

SpecTwin == InitTwin /\ [][NextTwin]_vars

\* Two requests in flight at once against a table fixed at setup. Each await
\* of a request (parseBody, an interceptor, the handler) is a point where
\* the steps of the other request can run.
InitConcurrent ==
    /\ routes = <<>>
    /\ globalPlugins = <<>>
    /\ serving = FALSE
    /\ lastMatch = [called |-> FALSE, method |-> MStr(""), url |-> <<>>,
                    table |-> <<>>, result |-> NoResult]
    /\ rq = [r \in ConcIds |-> IdleRequest]
    /\ testResults = [ran |-> FALSE, table |-> <<>>, testCases |-> <<>>,
                      results |-> <<>>]

NextConcurrent ==
    \/ Setup /\ \E cp \in {<<>>, <<"l1", "l2">>}, rd \in BOOLEAN :
          AddRoute(MStr("GET"), TplA, cp, rd)
    \/ Listen
    \/ \E r \in ConcIds, m \in {"GET", "POST"} : HandleRequest(r, m, UrlA)
    \/ \E r \in ConcIds, m \in {"GET", "POST"} :
          CreateServerListener(r, m, UrlA)
    \/ \E r \in ConcIds, o \in {"resolve", "reject"} : ParseBody(r, o)
    \/ \E r \in ConcIds, o \in {"true", "false", "handler", "throw"},
          w \in BOOLEAN : PluginReturns(r, o, w)
    \/ \E r \in ConcIds, o \in {"end", "none", "throw", "endThrow"} :
          HandlerReturns(r, o)
    \/ \E r \in ConcIds : RequestOver(r)

SpecConcurrent == InitConcurrent /\ [][NextConcurrent]_vars

\* Every operation of the router in any order: routes and global plugins are
\* registered at any time, also while requests are served, and matchRoute
\* and runTests are called in between.
NextTable ==
    \/ RegisterGlobalPlugin
    \/ \E t \in {TplA, TplAParam} : AddRoute(MStr("GET"), t, <<>>, FALSE)
    \/ \E u \in {UrlA, UrlAB} : CallMatchRoute("GET", u)
    \/ \E tcs \in {ts \in TestSuites : Len(ts) <= 1} : RunTests(tcs)
    \/ Listen
    \/ \E r \in ReqIds : HandleRequest(r, "GET", UrlA)
    \/ \E r \in ReqIds : CreateServerListener(r, "GET", UrlA)
    \/ \E r \in ReqIds : ParseBody(r, "resolve")
    \/ \E r \in ReqIds : PluginReturns(r, "true", FALSE)
    \/ \E r \in ReqIds : HandlerReturns(r, "end")
    \/ \E r \in ReqIds : RequestOver(r)

SpecTable == Init /\ [][NextTable]_vars

\* Late registration of global plugins: every route is registered before the
\* first addGlobalPlugin call, and global plugins are registered afterwards,
\* also once the server listens, between two requests.
NextLate ==
    \/ /\ \A r \in ReqIds : rq[r].pc = "idle"
       /\ routes # <<>>
       /\ RegisterGlobalPlugin
    \/ /\ Setup /\ globalPlugins = <<>>
       /\ \E cp \in {<<>>, <<"l1">>} : AddRoute(MStr("GET"), TplA, cp, FALSE)
    \/ Listen
    \/ \E r \in ReqIds, m \in {"GET", "POST"} : HandleRequest(r, m, UrlA)
    \/ \E r \in ReqIds, m \in {"GET", "POST"} :
          CreateServerListener(r, m, UrlA)
    \/ PipelineSteps

SpecLate == Init /\ [][NextLate]_vars

\* The pipeline over request streams that may fail before their body is
\* complete.
NextBody ==
    \/ Setup /\ RegisterGlobalPlugin
    \/ Setup /\ \E cp \in {<<>>, <<"l1">>}, rd \in BOOLEAN :
          AddRoute(MStr("GET"), TplA, cp, rd)
    \/ Listen
    \/ \E r \in ReqIds, m \in {"GET", "POST"} : HandleRequest(r, m, UrlA)
    \/ \E r \in ReqIds, m \in {"GET", "POST"} :
          CreateServerListener(r, m, UrlA)
    \/ \E r \in ReqIds : BodyStreamFails(r)
    \/ PipelineSteps

SpecBody == Init /\ [][NextBody]_vars

\* The handler of the live-reload plugin called for requests whose stream
\* emits its events at any time.
NextLiveReload ==
    \/ \E r \in ConcIds, m \in {"GET", "POST"}, u \in {UrlA, UrlB},
          sent \in BOOLEAN : LiveReloadHandler(r, m, u, sent)
    \/ \E r \in ConcIds, watched \in BOOLEAN : SendUpdateSettles(r, watched)
    \/ \E r \in ConcIds, ev \in StreamEvents : RequestEmits(r, ev)
    \/ \E r \in ConcIds : TemplateChanges(r)

SpecLiveReload == InitConcurrent /\ [][NextLiveReload]_vars

\* The dispatcher alone: routes of every template and method argument are
\* registered and matchRoute is called directly.
NextDispatch ==
    \/ \E m \in RouteMethods, t \in Templates : AddRoute(m, t, <<>>, FALSE)
    \/ \E m \in Methods, u \in Urls : CallMatchRoute(m, u)

SpecDispatch == Init /\ [][NextDispatch]_vars

\* Registration and direct dispatch: routes and global plugins are registered
\* and matchRoute is called in between.
NextCalls ==
    \/ RegisterGlobalPlugin
    \/ \E m \in PipeMethods, t \in {TplA, TplAParam} :
          AddRoute(m, t, <<>>, FALSE)
    \/ \E m \in Methods, u \in {UrlA, UrlAB, UrlB} : CallMatchRoute(m, u)

SpecCalls == Init /\ [][NextCalls]_vars

\* The harness: GET routes are registered and runTests is called.
NextHarness ==
    \/ \E t \in HarnessTemplates : AddRoute(MStr("GET"), t, <<>>, FALSE)
    \/ \E tcs \in TestSuites : RunTests(tcs)

SpecHarness == Init /\ [][NextHarness]_vars


(***************************************************************************)
(* The vocabulary of the claims: path patterns as the specification        *)
(* defines them (segments delimited by "/", a segment prefixed by ":" is a *)
(* named parameter that captures one non-empty slash-free segment, every   *)
(* other segment is a literal that matches itself verbatim).               *)
(***************************************************************************)

\* The segments of s: the substrings between its slashes. s starts with "/".
RECURSIVE SplitFrom(_, _, _)
SplitFrom(s, p, cur) ==
    IF p > Len(s) THEN <<cur>>
    ELSE IF s[p] = "/" THEN <<cur>> \o SplitFrom(s, p + 1, <<>>)
    ELSE SplitFrom(s, p + 1, Append(cur, s[p]))

Segments(s) == Tail(SplitFrom(s, 1, <<>>))

IsParamSegment(seg) == Len(seg) >= 2 /\ seg[1] = ":"

HasParam(t) == \E i \in 1..Len(Segments(t)) : IsParamSegment(Segments(t)[i])

\* The pattern of template t accepts the whole path u.
PatternAccepts(t, u) ==
    LET ts == Segments(t)
        us == Segments(u)
    IN  /\ Len(ts) = Len(us)
        /\ \A i \in 1..Len(ts) :
              IF IsParamSegment(ts[i]) THEN us[i] # <<>> ELSE us[i] = ts[i]

\* The parameters of path u under template t: each parameter name mapped to
\* the segment of u at the position of its declaration.
PatternParams(t, u) ==
    LET ts == Segments(t)
        us == Segments(u)
        ix == {i \in 1..Len(ts) : IsParamSegment(ts[i])}
    IN  [nm \in {Tail(ts[i]) : i \in ix} |->
            us[CHOOSE i \in ix : Tail(ts[i]) = nm]]

\* The routes of table tbl that satisfy a request (method, path).
Satisfying(tbl, method, u) ==
    {i \in 1..Len(tbl) : PatternAccepts(tbl[i].path, u) /\ tbl[i].method = method}

Min(S) == CHOOSE x \in S : \A y \in S : x <= y

IsPrefix(s, t) == Len(s) <= Len(t) /\ SubSeq(t, 1, Len(s)) = s

(***************************************************************************)
(* The claims.                                                             *)
(***************************************************************************)

\* C1: for every route table and every (method, path), matchRoute returns
\* the handler and the parameters of the earliest-registered route whose
\* pattern accepts the whole path and whose method equals the request
\* method, and null when no route satisfies both.
C1_FirstRegisteredMatchWins ==
    lastMatch.called =>
        LET tbl == lastMatch.table
            res == lastMatch.result
            sat == Satisfying(tbl, lastMatch.method, lastMatch.url)
        IN  IF sat = {} THEN res.kind = "null"
            ELSE /\ res.kind = "match"
                 /\ res.index = Min(sat)
                 /\ res.handler = tbl[Min(sat)].handler
                 /\ res.params = PatternParams(tbl[Min(sat)].path, lastMatch.url)

\* C2: for every path template with a parameter segment, dispatching a path
\* whose corresponding segments are non-empty and slash-free yields each
\* parameter bound to its segment, by position; a path with that segment
\* empty, or one segment too many, does not match the template. Stated for
\* the first route of the table, which no earlier route can shadow.
C2_ParameterCapture ==
    (lastMatch.called /\ Len(lastMatch.table) >= 1
        /\ HasParam(lastMatch.table[1].path)
        /\ lastMatch.table[1].method = lastMatch.method) =>
        LET t   == lastMatch.table[1].path
            res == lastMatch.result
        IN  IF PatternAccepts(t, lastMatch.url)
            THEN /\ res.kind = "match"
                 /\ res.index = 1
                 /\ res.params = PatternParams(t, lastMatch.url)
            ELSE ~(res.kind = "match" /\ res.index = 1)

\* C3: a route registered with an array of several methods is matched for a
\* request whose method is any member of the array and whose path matches,
\* and for no method outside it. Stated for the first route of the table and
\* for the paths its compiled pattern accepts.
C3_MethodArray ==
    (lastMatch.called /\ Len(lastMatch.table) >= 1
        /\ lastMatch.table[1].method[1] = "arr"
        /\ CompileRegex(lastMatch.table[1].path).valid
        /\ RegexMatch(CompileRegex(lastMatch.table[1].path).atoms,
                      lastMatch.url) # NoMatch) =>
        LET declared == Range(Tail(lastMatch.table[1].method))
            res      == lastMatch.result
        IN  (lastMatch.method[2] \in declared)
                <=> (res.kind = "match" /\ res.index = 1)


\* The interceptors that have run for a request, as <<phase, name>>, in the
\* order they ran, and the chain its matched route prescribes: the global
\* interceptors in registration order, then the route's own in the order
\* given to addRoute.
IsPluginEvent(e) == e.kind \in {"global", "local"}

PluginsRun(q) ==
    LET pe == SelectSeq(q.trace, IsPluginEvent)
    IN  [i \in 1..Len(pe) |-> <<pe[i].kind, pe[i].who>>]

ChainOf(q) ==
    LET custom == q.match.handler.customPlugins
    IN  [i \in 1..(Len(globalPlugins) + Len(custom)) |->
            IF i <= Len(globalPlugins) THEN <<"global", globalPlugins[i]>>
            ELSE <<"local", custom[i - Len(globalPlugins)]>>]

HandlerRan(q) == \E k \in 1..Len(q.trace) : q.trace[k].kind = "handler"

\* C4: for a matched request the interceptors run in two ordered phases, the
\* global ones in registration order and then those of the matched route in
\* the order given to addRoute; no local interceptor runs before every global
\* one has let the chain continue, the handler runs only after the whole
\* chain, and the interceptors of other routes never run.
C4_GlobalThenLocalInOrder ==
    \A r \in ReqIds :
        LET q == rq[r]
        IN  q.match.kind = "match" =>
              /\ IsPrefix(PluginsRun(q), ChainOf(q))
              /\ HandlerRan(q) => PluginsRun(q) = ChainOf(q)
              /\ \A k \in 1..Len(q.trace) :
                    q.trace[k].kind = "local" =>
                        \A g \in 1..Len(globalPlugins) :
                            \E j \in 1..(k - 1) :
                                /\ q.trace[j].kind = "global"
                                /\ q.trace[j].who = globalPlugins[g]
                                /\ q.trace[j].out \in {"true", "handler"}

\* A request matched by the second route, whose interceptors differ from the
\* first route's, has run both global interceptors, both of its own, and its
\* handler.
C4_Witness ==
    \E r \in ReqIds :
        /\ rq[r].match.kind = "match"
        /\ rq[r].match.index = 2
        /\ Len(globalPlugins) = 2
        /\ routes[1].handler.customPlugins = <<"l1">>
        /\ routes[2].handler.customPlugins = <<"l1", "l2">>
        /\ HandlerRan(rq[r])
        /\ PluginsRun(rq[r]) = <<<<"global", "g1">>, <<"global", "g2">>,
                                 <<"local", "l1">>, <<"local", "l2">>>>

\* C5: an interceptor that returns false stops the chain at once: no later
\* global or local interceptor, no handler and no redirect runs, and the
\* pipeline writes nothing more to the response (it holds what the plugin
\* itself wrote, if anything).
C5_HaltStopsChain ==
    \A r \in ReqIds :
        LET q == rq[r]
        IN  \A k \in 1..Len(q.trace) :
                (IsPluginEvent(q.trace[k]) /\ q.trace[k].out = "false") =>
                    /\ k = Len(q.trace)
                    /\ q.pc = "done"
                    /\ q.res.ends <= 1
                    /\ q.res.body \in {"", "plugin"}
                    /\ q.res.sentStatus \in {0, 401}
                    /\ ~q.res.location

\* The first of two global interceptors has returned false for a request whose
\* route has interceptors of its own and a redirect target.
C5_Witness ==
    \E r \in ReqIds :
        /\ rq[r].match.kind = "match"
        /\ Len(globalPlugins) = 2
        /\ rq[r].match.handler.customPlugins # <<>>
        /\ rq[r].match.handler.redirectTo
        /\ Len(rq[r].trace) = 2
        /\ rq[r].trace[2] = Event("global", "g1", "false")

\* C6: when an interceptor returns a replacement handler, the remaining
\* interceptors still run and then the replacement is invoked in place of the
\* registered handler, which is not invoked for that request.
C6_OverrideReplacesHandler ==
    \A r \in ReqIds :
        LET q == rq[r]
        IN  \A k \in 1..Len(q.trace), j \in 1..Len(q.trace) :
                (/\ IsPluginEvent(q.trace[k])
                 /\ q.trace[k].out = "handler"
                 /\ q.trace[j].kind = "handler") =>
                    /\ PluginsRun(q) = ChainOf(q)
                    /\ q.trace[j].who = OverrideHandler

\* C7: a request that no registered route satisfies (its path accepted by no
\* pattern, or only by routes of another method) is answered 404 and nothing
\* else runs for it: no body decoding, interceptor, handler or redirect.
C7_NoRouteIs404 ==
    \A r \in ReqIds :
        LET q == rq[r]
        IN  (/\ q.pc # "idle"
             /\ q.method \in Methods
             /\ Satisfying(routes, MStr(q.method), q.url) = {}) =>
                /\ q.pc = "done"
                /\ q.trace = <<>>
                /\ q.res.sentStatus = 404
                /\ q.res.ends = 1

\* C8: when an interceptor or the handler raises, through either entry point
\* the failure is caught and answered 500, nothing else of the chain runs,
\* and the failure does not leave the pipeline.
C8_FailureBecomes500 ==
    \A r \in ReqIds :
        LET q == rq[r]
        IN  \A k \in 1..Len(q.trace) :
                (/\ q.trace[k].kind \in {"global", "local", "handler"}
                 /\ q.trace[k].out \in {"throw", "endThrow"}) =>
                    /\ q.pc = "done"
                    /\ Len(q.trace) = k + 1
                    /\ q.trace[k + 1].kind = "catch"
                    /\ q.res.sentStatus = 500

\* C9: when body decoding fails for a matched request, through either entry
\* point the failure is answered 500, no interceptor or handler runs, and the
\* failure does not leave the pipeline.
C9_DecodeFailureBecomes500 ==
    \A r \in ReqIds :
        LET q == rq[r]
        IN  \A k \in 1..Len(q.trace) :
                (q.trace[k].kind = "parseBody" /\ q.trace[k].out = "reject") =>
                    /\ q.pc = "done"
                    /\ q.res.sentStatus = 500
                    /\ PluginsRun(q) = <<>>
                    /\ ~HandlerRan(q)

\* C10: for a matched route with a redirect target, once the handler has
\* completed the redirect is issued if and only if the response is not yet
\* finalized; when the handler finalized it, no redirect is attempted and the
\* response stays as the handler wrote it.
C10_RedirectUnlessFinalized ==
    \A r \in ReqIds :
        LET q == rq[r]
        IN  \A k \in 1..Len(q.trace) :
                (/\ q.trace[k].kind = "handler"
                 /\ q.match.handler.redirectTo) =>
                    /\ q.trace[k].out = "none" =>
                          /\ Len(q.trace) = k + 1
                          /\ q.trace[k + 1] = Event("redirect", "redirectTo", "302")
                          /\ q.res.sentStatus = 302
                          /\ q.res.location
                    /\ q.trace[k].out = "end" =>
                          /\ Len(q.trace) = k
                          /\ q.res.sentStatus = 200
                          /\ q.res.body = "handler"
                          /\ q.res.ends = 1

\* C11: on every path through the pipeline (404, halt, handler completion,
\* redirect after the handler, conversion of a failure to 500) end() is
\* called at most once on the response of a request.
C11_EndAtMostOnce ==
    \A r \in ReqIds : rq[r].res.ends <= 1

\* The function value f is the very function h that was passed to addRoute.
\* A function value of the model carries its identity: a registered handler
\* is the name h itself, the closure addRoute builds is a wrappedHandler.
IsReference(f, h) == f.fn = h

\* C12: after a route was registered with handler h, a matchRoute call that
\* resolves to that route returns the very reference h passed at
\* registration, together with the captured parameters.
C12_RoundTripHandlerReference ==
    (lastMatch.called /\ lastMatch.result.kind = "match") =>
        LET res == lastMatch.result
            rt  == lastMatch.table[res.index]
        IN  /\ IsReference(res.handler, Handlers[res.index])
            /\ PatternAccepts(rt.path, lastMatch.url) =>
                   res.params = PatternParams(rt.path, lastMatch.url)

\* C13: a path template that cannot be compiled into a matcher makes addRoute
\* fail: it is never in the route table, and no matchRoute call discovers it
\* by raising.
C13_InvalidTemplateRejectedAtRegistration ==
    /\ \A i \in 1..Len(routes) : CompileRegex(routes[i].path).valid
    /\ lastMatch.called => lastMatch.result.kind # "throw"

\* C14: dispatch is pure. A matchRoute call leaves the route table and the
\* global interceptor list as they were, and a call with the same (method,
\* path) against the same route table as the call before it returns the same
\* route and the same parameters.
C14_DispatchIsPure ==
    [][lastMatch' # lastMatch =>
          /\ routes' = routes
          /\ globalPlugins' = globalPlugins
          /\ (/\ lastMatch.called
              /\ lastMatch'.method = lastMatch.method
              /\ lastMatch'.url = lastMatch.url
              /\ lastMatch'.table = lastMatch.table) =>
                 lastMatch'.result = lastMatch.result]_vars

\* A matchRoute call has returned the second route of a table of two, and
\* the table is still the one the call ran against.
C14_Witness ==
    /\ lastMatch.called
    /\ Len(lastMatch.table) = 2
    /\ lastMatch.result.kind = "match"
    /\ lastMatch.result.index = 2
    /\ routes = lastMatch.table

\* The global interceptor registered i-th has been executed for request q as
\* the i-th interceptor of its chain (the trace starts with body decoding).
GlobalRan(q, i) ==
    /\ Len(q.trace) >= i + 1
    /\ q.trace[i + 1].kind = "global"
    /\ q.trace[i + 1].who = globalPlugins[i]

\* C15: a global plugin registered with addGlobalPlugin is executed for every
\* incoming request, before the route-specific plugins and the handler: once
\* the pipeline of a request is over, every registered global plugin has run
\* for it, first in the chain and in registration order, save those that
\* follow a global plugin that halted the chain or raised, and save when the
\* body of the request could not be decoded.
C15_GlobalPluginRunsForEveryRequest ==
    \A r \in ReqIds :
        LET q == rq[r]
        IN  (/\ q.pc \in Terminal
             /\ ~\E k \in 1..Len(q.trace) :
                    q.trace[k] = Event("parseBody", "body", "reject")) =>
                /\ \A i \in 1..Len(globalPlugins) :
                      \/ GlobalRan(q, i)
                      \/ \E j \in 1..(i - 1) :
                            /\ GlobalRan(q, j)
                            /\ q.trace[j + 1].out \in {"false", "throw"}
                /\ \A k \in 1..Len(q.trace) :
                      q.trace[k].kind \in {"local", "handler"} =>
                          k > Len(globalPlugins) + 1

\* What the matcher gives for test case i of the latest runTests call.
MatchOfCase(i) ==
    MatchRoute(testResults.table, MStr(testResults.testCases[i].method),
               testResults.testCases[i].path)

\* Every key of the expected parameters maps to the identical value in the
\* produced parameters.
ExpectedParamsProduced(expected, produced) ==
    \A key \in DOMAIN expected :
        key \in DOMAIN produced /\ produced[key] = expected[key]

\* C16: for every test case the matcher returned for, runTests marks it passed
\* if and only if (a match was found) equals expectedMatch and, when a match
\* was expected and produced and expectedParams given, every key of
\* expectedParams maps to the identical value in the produced parameters;
\* produced parameters that expectedParams does not mention never cause
\* failure; every failed result carries a message.
C16_HarnessVerdict ==
    testResults.ran =>
        /\ Len(testResults.results) = Len(testResults.testCases)
        /\ \A i \in 1..Len(testResults.testCases) :
              LET tc    == testResults.testCases[i]
                  res   == testResults.results[i]
                  m     == MatchOfCase(i)
                  found == m.kind = "match"
              IN  /\ m.kind # "throw" =>
                        (res.passed <=>
                            /\ found = tc.expectedMatch
                            /\ (tc.expectedMatch /\ found /\ tc.hasParams) =>
                                  ExpectedParamsProduced(tc.expectedParams,
                                                         m.params))
                  /\ ~res.passed => res.message # Undefined

\* runTests has run, against a table whose first route is /:x/:y, a case that
\* expects only x == "a" of the produced {x: "a", y: "b"} and passes, and a
\* case that expects x == "b" and fails.
C16_Witness ==
    /\ testResults.ran
    /\ Len(testResults.table) >= 1
    /\ testResults.table[1].path = TplTwo
    /\ Len(testResults.testCases) = 2
    /\ testResults.testCases[1].name = "t1"
    /\ testResults.testCases[2].name = "t2"
    /\ testResults.results[1].passed
    /\ ~testResults.results[2].passed

\* C17: when the matcher raises during a case, runTests records that case as
\* failed with a diagnostic message and does not propagate the failure: the
\* remaining cases are still evaluated, and the results hold exactly one
\* entry per test case, in input order.
C17_HarnessContainsFailure ==
    testResults.ran =>
        /\ Len(testResults.results) = Len(testResults.testCases)
        /\ \A i \in 1..Len(testResults.testCases) :
              /\ testResults.results[i].name = testResults.testCases[i].name
              /\ MatchOfCase(i).kind = "throw" =>
                    /\ ~testResults.results[i].passed
                    /\ testResults.results[i].message = MsgError

\* runTests has run against a table whose second route has an invalid
\* template: the matcher raised for the first case, and the second case,
\* which the first route matches, was still evaluated and passed.
C17_Witness ==
    /\ testResults.ran
    /\ Len(testResults.table) = 2
    /\ ~CompileRegex(testResults.table[2].path).valid
    /\ Len(testResults.testCases) = 2
    /\ MatchOfCase(1).kind = "throw"
    /\ MatchOfCase(2).kind = "match"
    /\ Len(testResults.results) = 2
    /\ testResults.results[2].passed

\* C18: a path template without parameter markers compiles to an exact
\* literal matcher: it accepts the template string itself and no other path,
\* whatever characters the template holds ('.', '+', '(' included). Stated for
\* the first route of the table, which no earlier route can shadow, and for
\* calls with the method of that route.
C18_LiteralTemplateIsExact ==
    (lastMatch.called /\ Len(lastMatch.table) >= 1
        /\ ~HasParam(lastMatch.table[1].path)
        /\ lastMatch.table[1].method = lastMatch.method) =>
        LET res == lastMatch.result
        IN  /\ Len(lastMatch.table) = 1 => res.kind # "throw"
            /\ (res.kind = "match" /\ res.index = 1)
                   <=> lastMatch.url = lastMatch.table[1].path

\* The values of name nm in the query string, in the order of the string.
ValuesOf(entries, nm) ==
    LET hits == SelectSeq(entries, LAMBDA e : e.name = nm)
    IN  [i \in 1..Len(hits) |-> hits[i].value]

\* C19: the query mapping handed to the interceptors and the handler maps
\* each name of the query string to its string value, or to the ordered
\* sequence of all its values when the name repeats (?x=1&x=2 gives
\* x -> [1, 2]).
C19_QueryKeepsRepeatedNames ==
    \A r \in ReqIds :
        LET q       == rq[r]
            entries == SearchParams(q.search)
            names   == {entries[i].name : i \in 1..Len(entries)}
        IN  (q.match.kind = "match" /\ Len(q.trace) >= 2) =>
                /\ DOMAIN q.query = names
                /\ \A nm \in names :
                      LET vs == ValuesOf(entries, nm)
                      IN  q.query[nm] = IF Len(vs) = 1 THEN QStr(vs[1])
                                        ELSE QArr(vs)

\* What the environment decided for a request so far: the outcome of body
\* decoding, of each interceptor and of the handler, in order, and whether an
\* interceptor answered the request itself.
IsOutcome(e) == e.kind \in {"parseBody", "global", "local", "handler"}

OutcomesOf(q) == SelectSeq(q.trace, IsOutcome)

PluginWrote(q) == q.res.body = "plugin"

\* What can be observed of the processing of a request: the stages executed
\* and how each ended, whether the pipeline returned or the failure left it,
\* and the status and body that went out.
StagesOf(q) == [i \in 1..Len(q.trace) |-> <<q.trace[i].kind, q.trace[i].out>>]

ObservableOf(q) == <<q.pc, StagesOf(q), q.res.sentStatus, q.res.body>>

\* C20: the server of createServer processes a request as handleRequest does.
\* For the same request (method, absent or not, path and query) the listener
\* of createServer and handleRequest resolve the same route, and for the same
\* outcomes of body decoding, interceptors and handler they execute the same
\* stages, send the same status and body, and contain the same failures.
C20_CreateServerAsHandleRequest ==
    LET h == rq["hr"]
        c == rq["cs"]
    IN  (/\ h.pc # "idle" /\ c.pc # "idle"
         /\ h.method = c.method /\ h.url = c.url /\ h.search = c.search) =>
            /\ h.match = c.match
            /\ (OutcomesOf(h) = OutcomesOf(c) /\ PluginWrote(h) = PluginWrote(c))
                   => ObservableOf(h) = ObservableOf(c)

\* The positions of the trace of q that hold an event of kind k.
PositionsOf(q, k) == {i \in 1..Len(q.trace) : q.trace[i].kind = k}

\* The interceptor let the chain go on.
Continued(e) == IsPluginEvent(e) /\ e.out \in {"true", "handler"}

\* C22: for a matched request the stages occur in the order Resolve, Decode,
\* Intercept, Handle, Post-redirect: nothing runs for a request before a
\* route was resolved for it, body decoding is the first stage and has
\* completed before any interceptor runs, the handler is invoked exactly once
\* and only after every global and local interceptor has let the chain
\* continue, and the redirect is issued only after the handler has completed.
C22_StagesInOrder ==
    \A r \in ReqIds :
        LET q == rq[r]
        IN  /\ q.trace # <<>> =>
                  /\ q.match.kind = "match"
                  /\ PositionsOf(q, "parseBody") = {1}
            /\ \A k \in 1..Len(q.trace) :
                  IsPluginEvent(q.trace[k]) =>
                      q.trace[1] = Event("parseBody", "body", "resolve")
            /\ Cardinality(PositionsOf(q, "handler")) <= 1
            /\ \A k \in PositionsOf(q, "handler") :
                  /\ k = Len(ChainOf(q)) + 2
                  /\ PluginsRun(q) = ChainOf(q)
                  /\ \A j \in 2..(k - 1) : Continued(q.trace[j])
            /\ (/\ q.pc = "done"
                /\ Len(q.trace) >= 1
                /\ q.trace[1].out = "resolve"
                /\ PluginsRun(q) = ChainOf(q)
                /\ \A j \in 2..(Len(ChainOf(q)) + 1) : Continued(q.trace[j]))
                   => Cardinality(PositionsOf(q, "handler")) = 1
            /\ \A k \in PositionsOf(q, "redirect") :
                  /\ k >= 2
                  /\ q.trace[k - 1].kind = "handler"
                  /\ q.trace[k - 1].out \in {"none", "end"}

\* A request matched by a route with a redirect target went through every
\* stage: its body was decoded, one global and one local interceptor let it
\* continue, its handler completed, and the redirect was issued.
C22_Witness ==
    \E r \in ReqIds :
        /\ rq[r].pc = "done"
        /\ rq[r].match.kind = "match"
        /\ rq[r].match.handler.redirectTo
        /\ Len(rq[r].trace) = 5
        /\ rq[r].trace[1] = Event("parseBody", "body", "resolve")
        /\ rq[r].trace[2].kind = "global"
        /\ rq[r].trace[3].kind = "local"
        /\ rq[r].trace[4].kind = "handler"
        /\ rq[r].trace[5] = Event("redirect", "redirectTo", "302")

\* The place of a stage in the chain of the request q: the global
\* interceptors, then those of the route, then the handler.
StagePosition(q, s) ==
    CASE s[1] = "global" -> s[2]
      [] s[1] = "local"  -> Len(globalPlugins) + s[2]
      [] OTHER           -> Len(ChainOf(q)) + 1

\* The interceptor and handler calls of q that have returned.
IsStageEvent(e) == e.kind \in {"global", "local", "handler"}

StagesCompleted(q) == Len(SelectSeq(q.trace, IsStageEvent))

\* C23: within one request the interceptors and the handler execute strictly
\* one after the other. At every moment at most one interceptor or handler
\* call of a request is in progress, and the one in progress is the stage
\* right after those that have completed, also while the steps of another
\* request run in between.
C23_OneStageAtATime ==
    \A r \in ConcIds :
        LET q == rq[r]
        IN  /\ Cardinality(q.running) <= 1
            /\ \A s \in q.running :
                  /\ q.match.kind = "match"
                  /\ q.pc = s[1]
                  /\ StagePosition(q, s) = StagesCompleted(q) + 1

\* Both requests are in the middle of their chains at once: one waits for
\* its second interceptor after the first returned, the other for its
\* handler.
C23_Witness ==
    /\ rq["c1"].running = {<<"local", 2>>}
    /\ StagesCompleted(rq["c1"]) = 1
    /\ rq["c2"].running = {<<"handler", 0>>}
    /\ StagesCompleted(rq["c2"]) = 2

\* C24: requests in flight at once are independent. Against the table fixed
\* at setup each request resolves the route that matchRoute gives for its
\* own method and path, and for the same outcomes of body decoding,
\* interceptors and handler it executes the same stages and ends the same
\* way, whatever the other request does in between: two requests that are
\* the same and met the same outcomes are in the same state.
C24_ConcurrentRequestsIndependent ==
    /\ \A r \in ConcIds :
          LET q == rq[r]
          IN  q.pc # "idle" =>
                  q.match = MatchRoute(routes,
                                IF q.method = Undefined
                                THEN (IF q.entry = "createServer"
                                      THEN MStr("GET") ELSE MStr(""))
                                ELSE MStr(q.method), q.url)
    /\ LET a == rq["c1"]
           b == rq["c2"]
       IN  (/\ a.pc # "idle" /\ b.pc # "idle"
            /\ a.entry = b.entry /\ a.method = b.method
            /\ a.url = b.url /\ a.search = b.search
            /\ OutcomesOf(a) = OutcomesOf(b)
            /\ PluginWrote(a) = PluginWrote(b)) => a = b

\* Two requests for the same route are both waiting for the handler, each
\* after its two interceptors let the chain continue.
C24_Witness ==
    /\ rq["c1"].pc = "handler" /\ rq["c2"].pc = "handler"
    /\ rq["c1"].entry = rq["c2"].entry
    /\ Len(rq["c1"].trace) = 3
    /\ rq["c1"].trace = rq["c2"].trace

\* C25: the route table is append-only and order-preserving. Whatever the
\* sequence of addRoute, addGlobalPlugin, matchRoute, runTests and request
\* handling, every step leaves the routes already registered in place, in
\* their order, and adds at most one route, at the end.
C25_RouteTableAppendOnly ==
    [][/\ IsPrefix(routes, routes')
       /\ Len(routes') <= Len(routes) + 1]_vars

\* A second route was registered after matchRoute, runTests and a request
\* had worked on the table of the first one, which is still in front.
C25_Witness ==
    /\ Len(routes) = 2
    /\ lastMatch.called /\ lastMatch.table = <<routes[1]>>
    /\ testResults.ran /\ testResults.table = <<routes[1]>>
    /\ rq["r1"].pc = "done" /\ rq["r1"].match.kind = "match"
    /\ rq["r1"].match.handler = routes[1].handler
    /\ Len(globalPlugins) >= 1

\* The global interceptors that have returned for request q, in the order
\* they ran.
GlobalsRun(q) ==
    LET ge == SelectSeq(q.trace, LAMBDA e : e.kind = "global")
    IN  [i \in 1..Len(ge) |-> ge[i].who]

\* The chain of q has gone past its global interceptors: a local interceptor
\* or the handler is in progress or has returned.
PastGlobals(q) ==
    \/ q.pc \in {"local", "handler"}
    \/ \E k \in 1..Len(q.trace) : q.trace[k].kind \in {"local", "handler"}

\* C27: the global interceptors run for a request are those of the router's
\* global list when the chain of the request executes, in list order, also
\* when they were registered after the matched route: they run one by one
\* from the front of the list, and a chain that reaches the interceptors of
\* the route or the handler has run the whole list.
C27_GlobalListReadWhenChainRuns ==
    \A r \in ReqIds :
        LET q == rq[r]
        IN  /\ IsPrefix(GlobalsRun(q), globalPlugins)
            /\ q.pc = "global" => Len(GlobalsRun(q)) = q.idx - 1
            /\ PastGlobals(q) => GlobalsRun(q) = globalPlugins

\* Two global plugins registered after the route ran, in order, for a
\* request to that route, before the handler.
C27_Witness ==
    /\ rq["r1"].pc = "done"
    /\ rq["r1"].match.kind = "match"
    /\ Len(globalPlugins) = 2
    /\ GlobalsRun(rq["r1"]) = globalPlugins
    /\ HandlerRan(rq["r1"])

\* The pipeline of request r can go on: body decoding can settle, or the
\* interceptor or the handler in progress can return.
CanProceed(r) ==
    ENABLED (\/ \E o \in {"resolve", "reject"} : ParseBody(r, o)
             \/ \E o \in {"true", "false", "handler", "throw"},
                   w \in BOOLEAN : PluginReturns(r, o, w)
             \/ \E o \in {"end", "none", "throw", "endThrow"} :
                   HandlerReturns(r, o))

\* C26: provided every interceptor and handler that is called completes,
\* every request that entered handleRequest or the listener of createServer
\* reaches a terminal state of the pipeline, also when its body stream
\* errors or closes before the end event: a request in flight that is not
\* yet over is never left without a next step.
C26_RequestReachesTerminalState ==
    \A r \in ReqIds :
        rq[r].pc \notin ({"idle"} \cup Terminal) => CanProceed(r)

\* C21: once the live-reload interceptor has acquired a file watcher for a
\* request, any of the events close, end and error of that request closes
\* the watcher, and a failure while the stream is set up never leaves a
\* watcher open: neither a handler that failed nor a connection that closed
\* or broke during the setup has an open watcher.
C21_WatcherReleased ==
    \A r \in ConcIds :
        LET l == rq[r].lr
        IN  /\ l.after # {} => l.watcher = "closed"
            /\ l.pc = "failed" => l.watcher # "open"
            /\ l.during \cap {"close", "error"} # {} => l.watcher # "open"

====
